---------------------------- MODULE Spec2Model ----------------------------
(***************************************************************************)
(* A model of RoPY (src/RoPY.py): the interactive lookup loop `main`, the  *)
(* identifier validator `validate_user_id`, the fetch orchestrator         *)
(* `fetch_user_information` with its retry loop, and the payload helpers   *)
(* `validate_json_response`, `validate_avatar_url`, `parse_date` and       *)
(* `safe_get_count`.                                                       *)
(*                                                                         *)
(* Text is modelled as a sequence of characters.  A character is a TLA+    *)
(* string: one printable character, or the name of a character that has    *)
(* no convenient spelling ("u0663" is ARABIC-INDIC DIGIT THREE), or, in    *)
(* URLs and messages, a word of letters that the code never looks inside.  *)
(***************************************************************************)
EXTENDS Integers, Sequences, FiniteSets, TLC

VARIABLES
    pc,              \* position of the program: "prompt", "attempting",
                     \* "sleeping", "ask", "exited"; "idle"/"checked" in the
                     \* specifications of the pure functions
    user_input,      \* main: the stripped line read at the prompt
    id_status,       \* outcome of validate_user_id for user_input
    attempt,         \* fetch_user_information: loop variable of line 178
    delay,           \* fetch_user_information: delay about to be slept
    response,        \* fetch_user_information: what session.get gave the
                     \* latest attempt (a response or an exception)
    history,         \* one entry per attempt made: what came back and the
                     \* branch of the attempt that handled it
    events,          \* "request" / "sleep", in the order they happened
    printed,         \* what the lookup printed, in order
    result,          \* the return path the fetch took ("None" while running)
    user_info,       \* the record handed to display_user_info
    session_closed,  \* main: whether session.close() of line 467 has run
    url,             \* validate_avatar_url: its argument
    url_result,      \* validate_avatar_url: its return value
    calc,            \* calculate_retry_delay: its arguments and return value
    own_session,     \* fetch_user_information called without a session:
                     \* the session it created (lines 172-175, 309-311)
    calls            \* fetch_user_information called from several threads
                     \* with one session: the local state of each call

vars == <<pc, user_input, id_status, attempt, delay, response, history, events,
          printed, result, user_info, session_closed, url, url_result,
          calc, own_session, calls>>

----------------------------------------------------------------------------
(* Program constants, lines 19-32.                                          *)

MAX_RETRIES == 3
BASE_RETRY_DELAY == 1
MAX_RETRY_DELAY == 30
MAX_ID_LENGTH == 12

\* 10_000_000_000 as a decimal numeral, most significant digit first: the
\* value does not fit the model checker's integers, Python's does not
\* overflow (see int and IntLe below).
MAX_USER_ID == <<1, 0, 0, 0, 0, 0, 0, 0, 0, 0, 0>>

ALLOWED_URL_SCHEMES == { <<"https">>, <<"http">> }

ALLOWED_AVATAR_DOMAINS ==
    { <<"roblox", ".", "com">>, <<"rbxcdn", ".", "com">>,
      <<"tr", ".", "rbxcdn", ".", "com">> } \cup
    { <<t, ".", "rbxcdn", ".", "com">> :
        t \in {"t0", "t1", "t2", "t3", "t4", "t5", "t6", "t7"} }

----------------------------------------------------------------------------
(* Sequences of characters.                                                 *)

RECURSIVE Repeat(_, _)
Repeat(c, n) == IF n <= 0 THEN <<>> ELSE <<c>> \o Repeat(c, n - 1)

EndsWith(s, suffix) ==
    /\ Len(suffix) <= Len(s)
    /\ SubSeq(s, Len(s) - Len(suffix) + 1, Len(s)) = suffix

StartsWith(s, prefix) ==
    /\ Len(prefix) <= Len(s)
    /\ SubSeq(s, 1, Len(prefix)) = prefix

\* Index of the first element of s that is in set cs, Len(s) + 1 if none.
RECURSIVE FindFrom(_, _, _)
FindFrom(s, cs, i) ==
    IF i > Len(s) THEN Len(s) + 1
    ELSE IF s[i] \in cs THEN i
    ELSE FindFrom(s, cs, i + 1)

\* Index of the last element of s that is in set cs, 0 if none.
RECURSIVE RFindFrom(_, _, _)
RFindFrom(s, cs, i) ==
    IF i < 1 THEN 0
    ELSE IF s[i] \in cs THEN i
    ELSE RFindFrom(s, cs, i - 1)

\* str.lower on the characters the model uses.
LowerChar(c) ==
    CASE c = "HTTPS"  -> "https"
      [] c = "ROBLOX" -> "roblox"
      [] c = "COM"    -> "com"
      [] c = "Q"      -> "q"
      [] c = "QUIT"   -> "quit"
      [] c = "Y"      -> "y"
      [] OTHER        -> c

Lower(s) == [i \in 1..Len(s) |-> LowerChar(s[i])]

Whitespace == {" ", "\t"}

RECURSIVE LStrip(_)
LStrip(s) ==
    IF s # <<>> /\ Head(s) \in Whitespace THEN LStrip(Tail(s)) ELSE s

RECURSIVE RStrip(_)
RStrip(s) ==
    IF s # <<>> /\ s[Len(s)] \in Whitespace
    THEN RStrip(SubSeq(s, 1, Len(s) - 1))
    ELSE s

\* str.strip()
Strip(s) == RStrip(LStrip(s))

----------------------------------------------------------------------------
(* Decimal digits and Python's unbounded int.                               *)

AsciiDigits == {"0", "1", "2", "3", "4", "5", "6", "7", "8", "9"}

\* Characters c with c.isdigit(): the ASCII digits, the decimal digits of
\* other scripts (here ARABIC-INDIC ZERO and THREE) and digit-like
\* characters that are no decimal digits (here SUPERSCRIPT TWO).
DecimalChars == AsciiDigits \cup {"u0660", "u0663"}
DigitChars == DecimalChars \cup {"u00B2"}

DigitValue(c) ==
    CASE c = "0" -> 0 [] c = "1" -> 1 [] c = "2" -> 2 [] c = "3" -> 3
      [] c = "4" -> 4 [] c = "5" -> 5 [] c = "6" -> 6 [] c = "7" -> 7
      [] c = "8" -> 8 [] c = "9" -> 9
      [] c = "u0660" -> 0 [] c = "u0663" -> 3
      [] OTHER -> -1

\* str.isdigit(): non-empty and every character a digit character.
IsDigit(s) == s # <<>> /\ \A i \in 1..Len(s) : s[i] \in DigitChars

\* An integer is its decimal numeral without leading zeros; zero is <<0>>.
RECURSIVE Normalize(_)
Normalize(ds) ==
    IF Len(ds) > 1 /\ Head(ds) = 0 THEN Normalize(Tail(ds)) ELSE ds

\* int(s) for a string of digit characters: the value, or a ValueError
\* when a character has no decimal value.
IntParses(s) == s # <<>> /\ \A i \in 1..Len(s) : s[i] \in DecimalChars
IntOf(s) == Normalize([i \in 1..Len(s) |-> DigitValue(s[i])])

\* a < b on numerals
RECURSIVE LexLess(_, _)
LexLess(a, b) ==
    IF a = <<>> THEN FALSE
    ELSE IF Head(a) # Head(b) THEN Head(a) < Head(b)
    ELSE LexLess(Tail(a), Tail(b))

IntLess(a, b) ==
    \/ Len(a) < Len(b)
    \/ Len(a) = Len(b) /\ LexLess(a, b)

IntLe(a, b) == a = b \/ IntLess(a, b)

Zero == <<0>>

----------------------------------------------------------------------------
(* validate_user_id, lines 361-424.  The function prints one message and    *)
(* returns False, or returns True; the model returns the name of the        *)
(* message, "Accepted" for True.                                            *)

\* validate_user_id with the length check made before the leading-zero check
validate_user_id_LengthFirst(user_id) ==
    LET stripped_id == Strip(user_id) IN
    IF stripped_id = <<>> THEN "EmptyInput"
    ELSE IF ~IsDigit(stripped_id) THEN "NonNumeric"
    ELSE IF Len(stripped_id) > MAX_ID_LENGTH THEN "TooLong"
    ELSE IF Len(stripped_id) > 1 /\ stripped_id[1] = "0" THEN "LeadingZero"
    ELSE IF ~IntParses(stripped_id) THEN "ParseOverflow"
    ELSE IF IntLe(IntOf(stripped_id), Zero) THEN "NonPositive"
    ELSE IF IntLess(MAX_USER_ID, IntOf(stripped_id)) THEN "ExceedsMaximum"
    ELSE "Accepted"

validate_user_id(user_id) ==
    LET stripped_id == Strip(user_id) IN
    IF stripped_id = <<>> THEN "EmptyInput"
    ELSE IF ~IsDigit(stripped_id) THEN "NonNumeric"
    ELSE IF Len(stripped_id) > 1 /\ stripped_id[1] = "0" THEN "LeadingZero"
    ELSE IF Len(stripped_id) > MAX_ID_LENGTH THEN "TooLong"
    ELSE IF ~IntParses(stripped_id) THEN "ParseOverflow"
    ELSE IF IntLe(IntOf(stripped_id), Zero) THEN "NonPositive"
    ELSE IF IntLess(MAX_USER_ID, IntOf(stripped_id)) THEN "ExceedsMaximum"
    ELSE "Accepted"

----------------------------------------------------------------------------
(* JSON values as Python sees them after response.json().  n carries the   *)
(* value of a bool (0/1), of an int, of a float (in halves: n = 3 is 1.5)  *)
(* and the number of elements of a list or dict; s carries the characters  *)
(* of a str and the name of a non-finite float ("inf", "-inf", "nan",      *)
(* which json.loads produces from 1e999, -1e999, Infinity, NaN).           *)

Null == [k |-> "null", n |-> 0, s |-> <<>>]
Missing == [k |-> "missing", n |-> 0, s |-> <<>>]
Str(s) == [k |-> "str", n |-> 0, s |-> s]
Bool(b) == [k |-> "bool", n |-> IF b THEN 1 ELSE 0, s |-> <<>>]
IntV(n) == [k |-> "int", n |-> n, s |-> <<>>]
FloatV(halves) == [k |-> "float", n |-> halves, s |-> <<>>]
NonFinite(name) == [k |-> "nonfinite", n |-> 0, s |-> <<name>>]
Arr(n) == [k |-> "arr", n |-> n, s |-> <<>>]
Obj(n) == [k |-> "obj", n |-> n, s |-> <<>>]

\* bool(v): Python's truth value.
Truthy(v) ==
    CASE v.k \in {"null", "missing"} -> FALSE
      [] v.k = "str" -> v.s # <<>>
      [] v.k \in {"bool", "int", "float", "arr", "obj"} -> v.n # 0
      [] OTHER -> TRUE

\* isinstance(v, str)
IsStr(v) == v.k = "str"

\* isinstance(v, (int, float)): bool is a subclass of int.
IsNumber(v) == v.k \in {"bool", "int", "float", "nonfinite"}

\* dict.get(field) and dict.get(field, default)
Get(data, field) == IF data[field].k = "missing" THEN Null ELSE data[field]
GetOr(data, field, default) ==
    IF data[field].k = "missing" THEN default ELSE data[field]

NOT_AVAILABLE == <<"Not available">>
INVALID_URL == <<"Invalid URL">>
UNKNOWN == <<"Unknown">>
INVALID_DATE == <<"Invalid date format">>

----------------------------------------------------------------------------
(* urllib.parse.urlparse as line 70 uses it: the scheme, the netloc and,   *)
(* for the claims about hosts, the hostname the parse result reports.      *)

\* url.lstrip(C0 control or space), then tabs and newlines removed
UrlClean(u) == SelectSeq(LStrip(u), LAMBDA c : c # "\t")

\* Characters of which every character is a letter, a digit, "+", "-", ".".
NonSchemeChars == {":", "/", "?", "#", "@", " ", "\t", "\\"}
StartsWithDigit == {"8080"}

SchemeEnd(u) == FindFrom(u, {":"}, 1)

HasScheme(u) ==
    /\ SchemeEnd(u) <= Len(u)
    /\ SchemeEnd(u) > 1
    /\ u[1] \notin StartsWithDigit \cup {".", "-"}
    /\ \A i \in 1..(SchemeEnd(u) - 1) : u[i] \notin NonSchemeChars

UrlScheme(url_str) ==
    LET u == UrlClean(url_str) IN
    IF HasScheme(u) THEN Lower(SubSeq(u, 1, SchemeEnd(u) - 1)) ELSE <<>>

AfterScheme(url_str) ==
    LET u == UrlClean(url_str) IN
    IF HasScheme(u) THEN SubSeq(u, SchemeEnd(u) + 1, Len(u)) ELSE u

\* _splitnetloc: after "//", up to the first of "/", "?", "#"
UrlNetloc(url_str) ==
    LET rest == AfterScheme(url_str) IN
    IF StartsWith(rest, <<"/", "/">>)
    THEN SubSeq(rest, 3, FindFrom(rest, {"/", "?", "#"}, 3) - 1)
    ELSE <<>>

\* SplitResult.hostname: what follows the last "@", up to the first ":",
\* lower-cased
UrlHostname(url_str) ==
    LET netloc == UrlNetloc(url_str)
        hostinfo == SubSeq(netloc, RFindFrom(netloc, {"@"}, Len(netloc)) + 1,
                           Len(netloc))
    IN  Lower(SubSeq(hostinfo, 1, FindFrom(hostinfo, {":"}, 1) - 1))

\* host == allowed or host.endswith('.' + allowed), for some allowed domain
DomainAllowed(domain) ==
    \E allowed \in ALLOWED_AVATAR_DOMAINS :
        domain = allowed \/ EndsWith(domain, <<".">> \o allowed)

(* validate_avatar_url, lines 53-96.  With the characters of the model     *)
(* urlparse raises nothing, so the handler of lines 94-96 is not entered.  *)
validate_avatar_url(v) ==
    IF ~Truthy(v) \/ v = Str(UNKNOWN) THEN NOT_AVAILABLE
    ELSE IF ~IsStr(v) THEN INVALID_URL
    ELSE IF UrlScheme(v.s) \notin ALLOWED_URL_SCHEMES THEN INVALID_URL
    ELSE IF UrlNetloc(v.s) = <<>> THEN INVALID_URL
    ELSE IF ~DomainAllowed(Lower(UrlNetloc(v.s))) THEN INVALID_URL
    ELSE v.s

----------------------------------------------------------------------------
(* str() of numbers, as lines 156 and 238-239 use it.                       *)

DigitChar(d) ==
    CASE d = 0 -> "0" [] d = 1 -> "1" [] d = 2 -> "2" [] d = 3 -> "3"
      [] d = 4 -> "4" [] d = 5 -> "5" [] d = 6 -> "6" [] d = 7 -> "7"
      [] d = 8 -> "8" [] OTHER -> "9"

\* str(n) for an int n >= 0
RECURSIVE DecStr(_)
DecStr(n) ==
    IF n < 10 THEN <<DigitChar(n)>>
    ELSE DecStr(n \div 10) \o <<DigitChar(n % 10)>>

SignedStr(n) == IF n < 0 THEN <<"-">> \o DecStr(-n) ELSE DecStr(n)

\* int(x) of a float given in halves: truncation towards zero
TruncHalves(h) == IF h >= 0 THEN h \div 2 ELSE -((-h) \div 2)

\* str(v) of a JSON value
PyStr(v) ==
    CASE v.k = "str" -> v.s
      [] v.k = "int" -> SignedStr(v.n)
      [] v.k = "bool" -> IF v.n = 1 THEN <<"True">> ELSE <<"False">>
      [] v.k = "float" ->
            (IF v.n < 0 THEN <<"-">> ELSE <<>>)
            \o DecStr(TruncHalves(IF v.n < 0 THEN -v.n ELSE v.n))
            \o <<".", IF v.n % 2 = 0 THEN "0" ELSE "5">>
      [] v.k = "nonfinite" -> v.s
      [] v.k = "arr" -> <<"[", "...", "]">>
      [] v.k = "obj" -> <<"{", "...", "}">>
      [] OTHER -> <<"None">>

----------------------------------------------------------------------------
(* safe_get_count, lines 135-158.  exc names the exception the call         *)
(* raises, "none" when it returns val.                                      *)

Returned(val) == [exc |-> "none", val |-> val]
Raised(exc) == [exc |-> exc, val |-> <<>>]

safe_get_count(data, field) ==
    LET value == Get(data, field) IN
    IF value.k = "null" THEN Returned(NOT_AVAILABLE)
    ELSE IF IsNumber(value) THEN
        IF value.k = "nonfinite" THEN
            \* -inf < 0; inf and nan are not, and int() of them raises
            IF value.s = <<"-inf">> THEN Returned(NOT_AVAILABLE)
            ELSE IF value.s = <<"inf">> THEN Raised("OverflowError")
            ELSE Raised("ValueError")
        ELSE IF value.n < 0 THEN Returned(NOT_AVAILABLE)
        ELSE IF value.k = "float" THEN Returned(DecStr(TruncHalves(value.n)))
        ELSE Returned(DecStr(value.n))
    ELSE Returned(NOT_AVAILABLE)

----------------------------------------------------------------------------
(* parse_date, lines 313-337.  A date string is a sequence of characters    *)
(* in which a run of digits is one character; DateNum gives the run's       *)
(* value and DateWidth its number of digits.                                *)

DigitRuns ==
    {"2020", "2021", "20", "1", "01", "02", "12", "13", "29", "30", "00",
     "23", "24", "59", "60", "123", "1234567"}

DateNum(c) ==
    CASE c = "2020" -> 2020 [] c = "2021" -> 2021 [] c = "20" -> 20
      [] c = "1" -> 1 [] c = "01" -> 1 [] c = "02" -> 2 [] c = "12" -> 12
      [] c = "13" -> 13 [] c = "29" -> 29 [] c = "30" -> 30 [] c = "00" -> 0
      [] c = "23" -> 23 [] c = "24" -> 24 [] c = "59" -> 59 [] c = "60" -> 60
      [] c = "123" -> 123 [] OTHER -> 1234567

DateWidth(c) ==
    CASE c \in {"2020", "2021"} -> 4
      [] c = "1" -> 1
      [] c = "123" -> 3
      [] c = "1234567" -> 7
      [] OTHER -> 2

\* The directives of the two formats of line 329, as strptime's regular
\* expressions accept them.
DirectiveMatches(d, c) ==
    /\ c \in DigitRuns
    /\ CASE d = "%Y" -> DateWidth(c) = 4
         [] d = "%m" -> DateWidth(c) <= 2 /\ DateNum(c) \in 1..12
         [] d = "%d" -> DateWidth(c) <= 2 /\ DateNum(c) \in 1..31
         [] d = "%H" -> DateWidth(c) <= 2 /\ DateNum(c) \in 0..23
         [] d = "%M" -> DateWidth(c) <= 2 /\ DateNum(c) \in 0..59
         [] d = "%S" -> DateWidth(c) <= 2 /\ DateNum(c) \in 0..61
         [] d = "%f" -> DateWidth(c) <= 6
         [] OTHER -> FALSE

Directives == {"%Y", "%m", "%d", "%H", "%M", "%S", "%f"}

DATE_FORMATS ==
    << <<"%Y", "-", "%m", "-", "%d", "T", "%H", ":", "%M", ":", "%S", ".",
         "%f", "Z">>,
       <<"%Y", "-", "%m", "-", "%d", "T", "%H", ":", "%M", ":", "%S", "Z">> >>

IsLeap(y) == (y % 4 = 0 /\ y % 100 # 0) \/ y % 400 = 0

DaysInMonth(y, m) ==
    IF m = 2 THEN (IF IsLeap(y) THEN 29 ELSE 28)
    ELSE IF m \in {4, 6, 9, 11} THEN 30 ELSE 31

\* datetime.strptime(date_str, fmt) returns (no ValueError): the string
\* matches the format entirely and names a date and a time that exist.
Strptime(date_str, fmt) ==
    /\ Len(date_str) = Len(fmt)
    /\ \A i \in 1..Len(fmt) :
          IF fmt[i] \in Directives
          THEN DirectiveMatches(fmt[i], date_str[i])
          ELSE date_str[i] = fmt[i]
    /\ DateNum(date_str[5]) <= DaysInMonth(DateNum(date_str[1]),
                                           DateNum(date_str[3]))
    /\ DateNum(date_str[11]) <= 59

Pad2(n) == IF n < 10 THEN <<"0">> \o DecStr(n) ELSE DecStr(n)

\* strftime("%Y-%m-%d %H:%M:%S") of the parsed fields
Strftime(date_str) ==
    DecStr(DateNum(date_str[1])) \o <<"-">> \o Pad2(DateNum(date_str[3]))
    \o <<"-">> \o Pad2(DateNum(date_str[5])) \o <<" ">>
    \o Pad2(DateNum(date_str[7])) \o <<":">> \o Pad2(DateNum(date_str[9]))
    \o <<":">> \o Pad2(DateNum(date_str[11]))

parse_date(date_str) ==
    IF date_str.k = "null" \/ ~Truthy(date_str) \/ date_str = Str(UNKNOWN)
    THEN UNKNOWN
    ELSE IF ~IsStr(date_str) THEN INVALID_DATE
    ELSE IF Strptime(date_str.s, DATE_FORMATS[1]) THEN Strftime(date_str.s)
    ELSE IF Strptime(date_str.s, DATE_FORMATS[2]) THEN Strftime(date_str.s)
    ELSE INVALID_DATE

----------------------------------------------------------------------------
(* Delays.  A float is finite, with q its value in ticks, or one of nan,    *)
(* inf, -inf.  random.uniform(0, delay * 0.5) of line 49 is drawn from      *)
(* JitterSteps + 1 evenly spaced points of its interval, which makes        *)
(* 1 / (2 * JitterSteps) second the tick.                                   *)

JitterSteps == 2
TicksPerSecond == 2 * JitterSteps

Finite(q) == [cls |-> "fin", q |-> q]
NaN == [cls |-> "nan", q |-> 0]
PosInf == [cls |-> "inf", q |-> 0]
NegInf == [cls |-> "-inf", q |-> 0]
NoDelay == Finite(0)

\* x < y on floats
FloatLess(x, y) ==
    CASE x.cls = "nan" \/ y.cls = "nan" -> FALSE
      [] x.cls = "-inf" -> y.cls # "-inf"
      [] x.cls = "inf" -> FALSE
      [] y.cls = "-inf" -> FALSE
      [] y.cls = "inf" -> TRUE
      [] OTHER -> x.q < y.q

\* min(a, b): a unless b < a
PyMin(a, b) == IF FloatLess(b, a) THEN b ELSE a

RECURSIVE Pow2(_)
Pow2(n) == IF n <= 0 THEN 1 ELSE 2 * Pow2(n - 1)

MinInt(a, b) == IF b < a THEN b ELSE a

\* The delay before jitter, lines 45-47, in seconds.
BackoffBase(att) == MinInt(BASE_RETRY_DELAY * Pow2(att), MAX_RETRY_DELAY)

\* calculate_retry_delay with random.uniform(0, delay) for line 49
calculate_retry_delay_FullJitter(att, j) ==
    Finite(BackoffBase(att) * TicksPerSecond + 2 * BackoffBase(att) * j)

\* calculate_retry_delay, lines 34-50; j in 0..JitterSteps picks the jitter.
calculate_retry_delay(att, j) ==
    Finite(BackoffBase(att) * TicksPerSecond + BackoffBase(att) * j)

\* float(text) of a header value: [ok |-> FALSE] stands for ValueError.
RECURSIVE NatOf(_)
NatOf(ds) ==
    IF ds = <<>> THEN 0
    ELSE 10 * NatOf(SubSeq(ds, 1, Len(ds) - 1)) + DigitValue(ds[Len(ds)])

ParseUnsigned(t) ==
    IF t = <<"nan">> THEN [ok |-> TRUE, f |-> NaN]
    ELSE IF t = <<"inf">> THEN [ok |-> TRUE, f |-> PosInf]
    ELSE IF IntParses(t) THEN
        [ok |-> TRUE, f |-> Finite(NatOf(t) * TicksPerSecond)]
    ELSE IF /\ Len(t) >= 3
            /\ t[Len(t) - 1] = "."
            /\ t[Len(t)] = "5"
            /\ IntParses(SubSeq(t, 1, Len(t) - 2))
    THEN [ok |-> TRUE,
          f |-> Finite(NatOf(SubSeq(t, 1, Len(t) - 2)) * TicksPerSecond
                       + JitterSteps)]
    ELSE [ok |-> FALSE, f |-> NaN]

Negate(f) ==
    CASE f.cls = "fin" -> Finite(-f.q)
      [] f.cls = "inf" -> NegInf
      [] f.cls = "-inf" -> PosInf
      [] OTHER -> f

ParseFloat(text) ==
    LET t == Strip(text) IN
    IF t # <<>> /\ Head(t) = "-"
    THEN LET r == ParseUnsigned(Tail(t)) IN [ok |-> r.ok, f |-> Negate(r.f)]
    ELSE IF t # <<>> /\ Head(t) = "+" THEN ParseUnsigned(Tail(t))
    ELSE ParseUnsigned(t)

\* time.sleep(x) raises ValueError for a negative or a NaN argument.
SleepRaises(x) == x.cls \in {"nan", "-inf"} \/ (x.cls = "fin" /\ x.q < 0)

----------------------------------------------------------------------------
(* validate_json_response, lines 99-132: None, or the parsed dict.          *)

Fields ==
    {"name", "displayName", "created", "avatarUrl", "followersCount",
     "friendsCount"}

NoData == [f \in Fields |-> Missing]

\* body.kind: "empty" (no characters), "blank" (white space only), "garbage"
\* (response.json() raises JSONDecodeError), "array", "scalar" (JSON that is
\* no object), "object" (a dict, body.data its fields).
\* validate_json_response without the isinstance(data, dict) test of line 125
validate_json_response_AnyJson(body) ==
    IF body.kind \in {"empty", "blank"} THEN [none |-> TRUE, data |-> NoData]
    ELSE IF body.kind = "garbage" THEN [none |-> TRUE, data |-> NoData]
    ELSE [none |-> FALSE, data |-> body.data]

validate_json_response(body) ==
    IF body.kind \in {"empty", "blank"} THEN [none |-> TRUE, data |-> NoData]
    ELSE IF body.kind = "garbage" THEN [none |-> TRUE, data |-> NoData]
    ELSE IF body.kind # "object" THEN [none |-> TRUE, data |-> NoData]
    ELSE [none |-> FALSE, data |-> body.data]

----------------------------------------------------------------------------
(* One pass of the loop body of fetch_user_information, lines 179-308, up   *)
(* to its return or to the call of time.sleep.                              *)

NoInfo ==
    [username |-> <<>>, display_name |-> <<>>, created_date |-> <<>>,
     avatar_url |-> <<>>, followers_count |-> <<>>, friends_count |-> <<>>]

\* Lines 233-245: the record, or the exception its construction raises.
\* The latency field (line 244) is a formatted time difference and is left
\* out of the record.
BuildUserInfo(data) ==
    LET followers == safe_get_count(data, "followersCount")
        friends == safe_get_count(data, "friendsCount")
        info ==
            [username |->
                IF Truthy(Get(data, "name"))
                THEN PyStr(GetOr(data, "name", Str(UNKNOWN))) ELSE UNKNOWN,
             display_name |->
                IF Truthy(Get(data, "displayName"))
                THEN PyStr(GetOr(data, "displayName", Str(UNKNOWN)))
                ELSE UNKNOWN,
             created_date |-> parse_date(Get(data, "created")),
             avatar_url |->
                validate_avatar_url(GetOr(data, "avatarUrl", Str(<<>>))),
             followers_count |-> followers.val,
             friends_count |-> friends.val]
    IN  IF followers.exc # "none" THEN [exc |-> followers.exc, info |-> NoInfo]
        ELSE IF friends.exc # "none" THEN [exc |-> friends.exc, info |-> NoInfo]
        ELSE [exc |-> "none", info |-> info]

\* the retry test off by one: attempt < MAX_RETRIES
MayRetry_OneMore(att) == att < MAX_RETRIES

\* attempt < MAX_RETRIES - 1, lines 201, 273 and 291
MayRetry(att) == att < MAX_RETRIES - 1

\* Lines 202-210: the delay slept after a 429.
RateLimitDelay(att, retry_after, j) ==
    IF retry_after.present /\ retry_after.text # <<>>
       /\ ParseFloat(retry_after.text).ok
    THEN PyMin(ParseFloat(retry_after.text).f,
               Finite(MAX_RETRY_DELAY * TicksPerSecond))
    ELSE calculate_retry_delay(att, j)

Return(outcome, message, res, info) ==
    [outcome |-> outcome, retry |-> FALSE, delay |-> NoDelay,
     prints |-> message, result |-> res, info |-> info]

Retry(outcome, message, d) ==
    [outcome |-> outcome, retry |-> TRUE, delay |-> d,
     prints |-> message, result |-> "None", info |-> NoInfo]

\* display_user_info, lines 339-359: a header, one line per field of the
\* record and the latency.  print raises UnicodeEncodeError for text that
\* the encoding of stdout cannot encode; a lone surrogate ("uD800", which
\* JSON can carry as an escape) is such text under every encoding.  exc
\* names the exception, prints the lines printed before it.
RecordFields ==
    <<"username", "display_name", "created_date", "avatar_url",
      "followers_count", "friends_count">>
RecordLabels ==
    <<"Username", "Display Name", "Created", "Avatar URL", "Followers",
      "Friends">>

Encodable(s) == \A i \in 1..Len(s) : s[i] # "uD800"

display_user_info(info) ==
    LET bad == { i \in 1..Len(RecordFields) :
                   ~Encodable(info[RecordFields[i]]) }
        stop == IF bad = {} THEN Len(RecordFields) + 1
                ELSE CHOOSE i \in bad : \A k \in bad : i <= k
    IN  [exc |-> IF bad = {} THEN "none" ELSE "UnicodeEncodeError",
         prints |-> <<"User Information">>
                    \o SubSeq(RecordLabels, 1, stop - 1)
                    \o (IF bad = {} THEN <<"Latency">> ELSE <<>>)]

\* HandleBody without the handler of lines 305-308: an exception of the
\* record's construction or display leaves the function
HandleBody_Propagates(body) ==
    LET parsed == validate_json_response(body) IN
    IF parsed.none
    THEN Return("MalformedBody", <<"Error: Received invalid response">>,
                "MalformedResponse", NoInfo)
    ELSE LET built == BuildUserInfo(parsed.data) IN
         IF built.exc # "none"
         THEN Return("Success", <<>>, "Raised", NoInfo)
         ELSE LET shown == display_user_info(built.info) IN
              IF shown.exc # "none"
              THEN Return("Success", shown.prints, "Raised", built.info)
              ELSE Return("Success", shown.prints, "Success", built.info)

\* Lines 223-252: the response passed raise_for_status.  An exception of
\* the record's construction or display lands in the handler of lines
\* 305-308.
HandleBody(body) ==
    LET parsed == validate_json_response(body) IN
    IF parsed.none
    THEN Return("MalformedBody", <<"Error: Received invalid response">>,
                "MalformedResponse", NoInfo)
    ELSE LET built == BuildUserInfo(parsed.data) IN
         IF built.exc # "none"
         THEN Return("Success", <<"An unexpected error occurred">>,
                     "Unexpected", NoInfo)
         ELSE LET shown == display_user_info(built.info) IN
              IF shown.exc # "none"
              THEN Return("Success",
                          shown.prints \o <<"An unexpected error occurred">>,
                          "Unexpected", built.info)
              ELSE Return("Success", shown.prints, "Success", built.info)

\* HandleHTTPError without the branch for 403 (lines 267-270)
HandleHTTPError_No403(att, status, j) ==
    IF status = 400
    THEN Return("ClientError", <<"Error: Invalid request">>, "BadRequest",
                NoInfo)
    ELSE IF status = 401
    THEN Return("ClientError", <<"Error: Authentication required">>,
                "AuthRequired", NoInfo)
    ELSE IF status >= 500
    THEN IF MayRetry(att)
         THEN Retry("ServerError", <<>>, calculate_retry_delay(att, j))
         ELSE Return("ServerError",
                     <<"Error: Server is temporarily unavailable">>,
                     "ServerUnavailable", NoInfo)
    ELSE Return("ClientError", <<"Error: status - Unable to fetch">>,
                "HttpError", NoInfo)

\* Lines 254-287: raise_for_status raised HTTPError for a status in 400..599.
HandleHTTPError(att, status, j) ==
    IF status = 400
    THEN Return("ClientError", <<"Error: Invalid request">>, "BadRequest",
                NoInfo)
    ELSE IF status = 401
    THEN Return("ClientError", <<"Error: Authentication required">>,
                "AuthRequired", NoInfo)
    ELSE IF status = 403
    THEN Return("ClientError", <<"Error: Access forbidden">>, "Forbidden",
                NoInfo)
    ELSE IF status >= 500
    THEN IF MayRetry(att)
         THEN Retry("ServerError", <<>>, calculate_retry_delay(att, j))
         ELSE Return("ServerError",
                     <<"Error: Server is temporarily unavailable">>,
                     "ServerUnavailable", NoInfo)
    ELSE Return("ClientError", <<"Error: status - Unable to fetch">>,
                "HttpError", NoInfo)

\* HandleConnectionError reporting the network error without any retry
HandleConnectionError_NoRetry(att, j) ==
    Return("TransportError", <<"A network error occurred">>, "NetworkError",
           NoInfo)

\* Lines 289-298: ConnectionError or Timeout from session.get.
HandleConnectionError(att, j) ==
    IF MayRetry(att)
    THEN Retry("TransportError", <<"Connection issue. Retrying">>,
               calculate_retry_delay(att, j))
    ELSE Return("TransportError", <<"A network error occurred">>,
                "NetworkError", NoInfo)

\* Lines 200-219: status 429.
HandleRateLimit(att, retry_after, j) ==
    IF MayRetry(att)
    THEN Retry("RateLimited", <<"Rate limited. Retrying">>,
               RateLimitDelay(att, retry_after, j))
    ELSE Return("RateLimited", <<"Error: Rate limit exceeded">>,
                "RateLimitExhausted", NoInfo)

\* r.exc is the exception session.get raised, "none" when it returned the
\* response r.status, r.retry_after, r.body.
HandleAttempt(att, r, j) ==
    IF r.exc \in {"ConnectionError", "Timeout"}
    THEN HandleConnectionError(att, j)
    ELSE IF r.exc = "HTTPError"
    THEN Return("Other", <<"Error: Unable to fetch">>, "HttpError", NoInfo)
    ELSE IF r.exc # "none"
    THEN Return("Other", <<"An unexpected error occurred">>, "Unexpected",
                NoInfo)
    ELSE IF r.status = 404
    THEN Return("NotFound", <<"Error: User not found">>, "NotFound", NoInfo)
    ELSE IF r.status = 429
    THEN HandleRateLimit(att, r.retry_after, j)
    ELSE IF r.status >= 400 /\ r.status < 600
    THEN HandleHTTPError(att, r.status, j)
    ELSE HandleBody(r.body)

\* Whether the pass draws a jitter at all (a call of calculate_retry_delay).
DrawsJitter(att, r) ==
    /\ MayRetry(att)
    /\ \/ r.exc \in {"ConnectionError", "Timeout"}
       \/ r.exc = "none" /\ (r.status = 429 \/ (r.status >= 500 /\ r.status < 600))

----------------------------------------------------------------------------
(* What the environment can supply: lines typed at the prompt, and the      *)
(* outcome of session.get (an exception or a response).                     *)

MaxOddFields == 1
MaxRun == 12
MaxChunks == 2

\* Lines typed at the prompt of line 440.
MainInputs ==
    { <<"1", "2", "3">>, <<" ", "1", "2", "3">>, <<>>, <<" ", "\t">>,
      <<"1", "2", "a">>, <<"0", "0", "7">>, <<"0">>, <<"u00B2">>,
      Repeat("9", 14), <<"1">> \o Repeat("0", 9) \o <<"1">>,
      <<"q">>, <<"Q">>, <<"q", "u", "i", "t">> }

URL_GOOD == <<"https", ":", "/", "/", "t1", ".", "rbxcdn", ".", "com", "/", "x">>
URL_EVIL == <<"https", ":", "/", "/", "evil", "-", "rbxcdn", ".", "com", "/", "x">>
URL_FTP == <<"ftp", ":", "/", "/", "roblox", ".", "com", "/", "x">>
URL_PORT ==
    <<"https", ":", "/", "/", "evil", ".", "com", ":", "x", ".", "roblox",
      ".", "com", "/", "x">>

DATE_FRACTION ==
    <<"2020", "-", "01", "-", "02", "T", "23", ":", "59", ":", "00", ".",
      "123", "Z">>
DATE_SECONDS ==
    <<"2020", "-", "1", "-", "02", "T", "23", ":", "59", ":", "00", "Z">>
DATE_NO_SUCH_DAY ==
    <<"2021", "-", "02", "-", "29", "T", "00", ":", "00", ":", "00", "Z">>

GoodData ==
    [name |-> Str(<<"alice">>), displayName |-> Str(<<"Alice">>),
     created |-> Str(DATE_FRACTION), avatarUrl |-> Str(URL_GOOD),
     followersCount |-> IntV(10), friendsCount |-> IntV(3)]

\* Values a field of the payload may carry instead of its GoodData value.
CommonValues ==
    { Missing, Null, Bool(TRUE), Bool(FALSE), IntV(-1), IntV(0),
      FloatV(5), FloatV(-1), NonFinite("inf"), NonFinite("-inf"),
      NonFinite("nan"), Arr(0), Arr(2), Obj(1), Str(<<>>),
      Str(UNKNOWN), Str(<<"garbage">>), Str(<<"uD800">>) }

FieldValues(f) ==
    CommonValues \cup
    (CASE f = "created" -> {Str(DATE_SECONDS), Str(DATE_NO_SUCH_DAY)}
       [] f = "avatarUrl" -> {Str(URL_EVIL), Str(URL_FTP), Str(URL_PORT)}
       [] OTHER -> {})

\* The payloads in which at most n fields differ from GoodData.
RECURSIVE OddData(_)
OddData(n) ==
    IF n = 0 THEN {GoodData}
    ELSE LET less == OddData(n - 1) IN
         less \cup { [d EXCEPT ![f] = v] :
                        <<d, f, v>> \in { t \in less \X Fields \X CommonValues :
                                            TRUE } }
              \cup { [d EXCEPT !["created"] = v] :
                        <<d, v>> \in less \X FieldValues("created") }
              \cup { [d EXCEPT !["avatarUrl"] = v] :
                        <<d, v>> \in less \X FieldValues("avatarUrl") }

\* The bodies that are no JSON object, and the object GoodData.
PlainBodies ==
    { [kind |-> k, data |-> NoData] :
        k \in {"empty", "blank", "garbage", "array", "scalar"} } \cup
    { [kind |-> "object", data |-> GoodData] }

Bodies ==
    PlainBodies \cup
    { [kind |-> "object", data |-> d] : d \in OddData(MaxOddFields) }

NoBody == [kind |-> "empty", data |-> NoData]

NoHeader == [present |-> FALSE, text |-> <<>>]

NoResponse ==
    [exc |-> "none", status |-> 0, retry_after |-> NoHeader, body |-> NoBody]

RetryAfterHeaders ==
    { NoHeader } \cup
    { [present |-> TRUE, text |-> t] :
        t \in { <<>>, <<"abc">>, <<"0">>, <<"2">>, <<"1", ".", "5">>,
                <<"1", "2", "0">>, <<"-", "1">>, <<"nan">>, <<"inf">>,
                <<"-", "inf">> } }

ErrorStatuses == {400, 401, 403, 404, 418, 429, 500, 599}
BodyStatuses == {200, 201, 304}
RequestExceptions == {"ConnectionError", "Timeout", "HTTPError", "RequestException"}

Responses ==
    { [exc |-> e, status |-> 0, retry_after |-> NoHeader, body |-> NoBody] :
        e \in RequestExceptions } \cup
    { [exc |-> "none", status |-> st, retry_after |-> NoHeader, body |-> NoBody] :
        st \in ErrorStatuses } \cup
    { [exc |-> "none", status |-> st, retry_after |-> ra, body |-> NoBody] :
        <<st, ra>> \in {429, 500} \X RetryAfterHeaders } \cup
    { [exc |-> "none", status |-> 200, retry_after |-> NoHeader, body |-> b] :
        b \in Bodies } \cup
    { [exc |-> "none", status |-> st, retry_after |-> NoHeader, body |-> b] :
        <<st, b>> \in (BodyStatuses \ {200}) \X PlainBodies }

----------------------------------------------------------------------------
(* The program: main (lines 426-467) calling fetch_user_information         *)
(* (lines 161-311) with its own session.                                    *)

\* Before any direct call of calculate_retry_delay or
\* fetch_user_information: main makes none, it passes its own session.
NoCalc == [a |-> 0, b |-> 0, j |-> 0, ret |-> NoDelay]
NoSession == [created |-> FALSE, closes |-> 0]
NoCalls == <<>>

Init ==
    /\ pc = "prompt"
    /\ user_input = <<>>
    /\ id_status = "None"
    /\ attempt = 0
    /\ delay = NoDelay
    /\ response = NoResponse
    /\ history = <<>>
    /\ events = <<>>
    /\ printed = <<>>
    /\ result = "None"
    /\ user_info = NoInfo
    /\ session_closed = FALSE
    /\ calc = NoCalc
    /\ own_session = NoSession
    /\ calls = NoCalls
    /\ url = Null
    /\ url_result = <<>>

\* Lines 446-448
IsQuit(line) == Lower(line) \in { <<"q">>, <<"q", "u", "i", "t">> }

\* main going on to the fetch whatever validate_user_id returned
ShouldFetch_Always(v) == TRUE

\* Line 450: whether main goes on to fetch_user_information
ShouldFetch(v) == v = "Accepted"

\* user_input, id_status, attempt, delay, history, events, printed, result and
\* user_info describe the lookup in progress or the one that just ended;
\* they are cleared when main leaves the lookup.
ClearLookup ==
    /\ user_input' = <<>>
    /\ id_status' = "None"
    /\ attempt' = 0
    /\ delay' = NoDelay
    /\ response' = NoResponse
    /\ history' = <<>>
    /\ events' = <<>>
    /\ printed' = <<>>
    /\ result' = "None"
    /\ user_info' = NoInfo

\* sys.exit(0) unwinds through the finally of lines 466-467.
Exit ==
    /\ pc' = "exited"
    /\ session_closed' = TRUE
    /\ ClearLookup
    /\ UNCHANGED <<url, url_result, calc, own_session, calls>>

\* Lines 440-451: a line is read, stripped and validated.  An accepted
\* identifier enters fetch_user_information (lines 169-178).
ReadInput ==
    /\ pc = "prompt"
    /\ \E raw \in MainInputs :
         LET line == Strip(raw) IN
         IF IsQuit(line) THEN Exit
         ELSE /\ user_input' = line
              /\ id_status' = validate_user_id(line)
              /\ attempt' = 0
              /\ delay' = NoDelay
              /\ response' = NoResponse
              /\ history' = <<>>
              /\ events' = <<>>
              /\ result' = "None"
              /\ user_info' = NoInfo
              /\ IF ShouldFetch(validate_user_id(line))
                 THEN pc' = "attempting" /\ printed' = <<>>
                 ELSE pc' = "prompt" /\ printed' = <<validate_user_id(line)>>
              /\ UNCHANGED <<session_closed, url, url_result, calc,
                             own_session, calls>>

\* Lines 441-443 and 463-465: input() raises EOFError.
ReadEOF ==
    /\ pc \in {"prompt", "ask"}
    /\ Exit

\* Lines 309-311: the finally of fetch_user_information closes the session
\* the call created itself.
Finally(session) ==
    IF session.created THEN [session EXCEPT !.closes = @ + 1] ELSE session

\* an exception leaving fetch_user_information without running its finally
Unwind_SkipsFinally(session) == session

\* An exception no handler of lines 254-308 catches (KeyboardInterrupt is
\* no Exception) leaves the function through the finally.
Unwind(session) == Finally(session)

\* Lines 179-252 and the handlers of lines 254-308: one request, answered
\* by one of responses, and what the loop body does with its outcome.  A
\* return runs the finally.
Request(responses) ==
    /\ pc = "attempting"
    /\ \E r \in responses :
         \E j \in (IF DrawsJitter(attempt, r) THEN 0..JitterSteps ELSE {0}) :
            LET h == HandleAttempt(attempt, r, j) IN
            /\ events' = Append(events, "request")
            /\ response' = r
            /\ history' = Append(history,
                                 [exc |-> r.exc, status |-> r.status,
                                  body |-> r.body.kind, outcome |-> h.outcome])
            /\ printed' = printed \o h.prints
            /\ delay' = h.delay
            /\ result' = h.result
            /\ user_info' = h.info
            /\ pc' = IF h.retry THEN "sleeping" ELSE "ask"
            /\ own_session' =
                  IF h.retry THEN own_session ELSE Finally(own_session)
            /\ UNCHANGED <<user_input, id_status, attempt, session_closed, url,
                           url_result, calc, calls>>

DoRequest == Request(Responses)

\* range(MAX_RETRIES), line 178
InRange(att) == att < MAX_RETRIES

\* Lines 214, 276, 295: time.sleep(delay) and the continue after it.  A
\* ValueError of time.sleep lands in the handler of lines 305-308.
Sleep ==
    /\ pc = "sleeping"
    /\ IF SleepRaises(delay)
       THEN /\ printed' = Append(printed, "An unexpected error occurred")
            /\ result' = "Unexpected"
            /\ pc' = "ask"
            /\ own_session' = Finally(own_session)
            /\ UNCHANGED <<attempt, delay, events>>
       ELSE /\ events' = Append(events, "sleep")
            /\ attempt' = attempt + 1
            /\ delay' = NoDelay
            /\ pc' = IF InRange(attempt + 1) THEN "attempting" ELSE "ask"
            /\ own_session' =
                  IF InRange(attempt + 1) THEN own_session
                  ELSE Finally(own_session)
            /\ UNCHANGED <<printed, result>>
    /\ UNCHANGED <<user_input, id_status, response, history, user_info,
                   session_closed, url, url_result, calc, calls>>

\* Lines 453-462: the inner loop reads until the answer is y/yes or n/no.
AskContinue ==
    /\ pc = "ask"
    /\ \E again \in BOOLEAN :
         IF again
         THEN /\ pc' = "prompt"
              /\ ClearLookup
              /\ UNCHANGED <<session_closed, url, url_result, calc,
                             own_session, calls>>
         ELSE Exit

\* Ctrl-C while main waits in input(), session.get or time.sleep: the
\* KeyboardInterrupt passes the handlers of lines 254-308 and 441/463,
\* runs the finally of lines 309-311 when it is raised inside the fetch
\* and that of lines 466-467, and is reported at line 473.
Interrupt ==
    /\ pc \in {"prompt", "attempting", "sleeping", "ask"}
    /\ pc' = "exited"
    /\ session_closed' = TRUE
    /\ own_session' = IF pc \in {"attempting", "sleeping"}
                      THEN Unwind(own_session) ELSE own_session
    /\ ClearLookup
    /\ UNCHANGED <<url, url_result, calc, calls>>

Next ==
    ReadInput \/ ReadEOF \/ DoRequest \/ Sleep \/ AskContinue \/ Interrupt

Spec == Init /\ [][Next]_vars

----------------------------------------------------------------------------
(* One call of fetch_user_information and its way out: the call main       *)
(* makes with its session (line 451), which Ctrl-C or the end of the input  *)
(* ends through main's finally, and a call without a session (the call      *)
(* creates one, lines 173-175), which its caller may cancel while it waits  *)
(* for a response or sleeps.  pc is "ask" once the call has returned and    *)
(* "unwound" once the cancellation has left it.                             *)

OwnSession == [created |-> TRUE, closes |-> 0]

FetchBodies ==
    PlainBodies \cup
    { [kind |-> "object", data |-> [GoodData EXCEPT ![f] = v]] :
        <<f, v>> \in {"name", "followersCount"}
                     \X {NonFinite("inf"), Str(<<"uD800">>)} }

FetchResponses == { r \in Responses : r.body \in FetchBodies \cup {NoBody} }

InitFetch ==
    /\ pc = "attempting"
    /\ own_session \in {NoSession, OwnSession}
    /\ user_input = <<"1", "2", "3">>
    /\ id_status = "Accepted"
    /\ attempt = 0
    /\ delay = NoDelay
    /\ response = NoResponse
    /\ history = <<>>
    /\ events = <<>>
    /\ printed = <<>>
    /\ result = "None"
    /\ user_info = NoInfo
    /\ session_closed = FALSE
    /\ url = Null
    /\ url_result = <<>>
    /\ calc = NoCalc
    /\ calls = NoCalls

FetchRequest == Request(FetchResponses)

Cancel ==
    /\ own_session.created
    /\ pc \in {"attempting", "sleeping"}
    /\ pc' = "unwound"
    /\ result' = "Interrupted"
    /\ own_session' = Unwind(own_session)
    /\ UNCHANGED <<user_input, id_status, attempt, delay, response, history,
                   events, printed, user_info, session_closed, url,
                   url_result, calc, calls>>

MainExits == ~own_session.created /\ (Interrupt \/ ReadEOF)

NextFetch == FetchRequest \/ Sleep \/ Cancel \/ MainExits

SpecFetch == InitFetch /\ [][NextFetch]_vars

----------------------------------------------------------------------------
(* validate_user_id on its own: every identifier of IdInputs is given to    *)
(* the function once.                                                       *)

IdChars == {"0", "1", "9", "a", "-", " ", "u0660", "u0663", "u00B2"}
IdEnds == { <<c>> : c \in IdChars } \cup { <<>> }
IdPads == { <<>>, <<" ">> }

IdInputs ==
    { l \o a \o Repeat(m, n) \o b \o r :
        <<l, a, m, n, b, r>> \in
            IdPads \X IdEnds \X {"0", "1", "9"} \X (0..MaxRun) \X IdEnds
            \X IdPads } \cup
    { <<"0", "0", "7">>, <<"1", "2", "a">>, <<"1", "2", "3">>,
      <<" ", " ", " ">> }

InitId ==
    /\ pc = "idle"
    /\ user_input \in IdInputs
    /\ id_status = "None"
    /\ attempt = 0
    /\ delay = NoDelay
    /\ response = NoResponse
    /\ history = <<>>
    /\ events = <<>>
    /\ printed = <<>>
    /\ result = "None"
    /\ user_info = NoInfo
    /\ session_closed = FALSE
    /\ calc = NoCalc
    /\ own_session = NoSession
    /\ calls = NoCalls
    /\ url = Null
    /\ url_result = <<>>

CheckId ==
    /\ pc = "idle"
    /\ id_status' = validate_user_id(user_input)
    /\ pc' = "checked"
    /\ UNCHANGED <<user_input, attempt, delay, response, history, events,
                   printed, result, user_info, session_closed, url,
                   url_result, calc, own_session, calls>>

NextId == CheckId

SpecId == InitId /\ [][NextId]_vars

----------------------------------------------------------------------------
(* validate_avatar_url on its own: every value of UrlInputs is given to     *)
(* the function once.                                                       *)

UrlPrefixes ==
    { <<"https", ":", "/", "/">>, <<"http", ":", "/", "/">>,
      <<"HTTPS", ":", "/", "/">>, <<"ftp", ":", "/", "/">>,
      <<"https", ":", "/">>, <<"/", "/">>, <<>> }

UrlChunks ==
    { <<"roblox", ".", "com">>, <<"ROBLOX", ".", "COM">>,
      <<"t1", ".", "rbxcdn", ".", "com">>, <<"x", ".", "roblox", ".", "com">>,
      <<"evil", ".", "com">>, <<"evil">>, <<"8080">> }

UrlJoiners == { <<".">>, <<"-">>, <<"@">>, <<":">>, <<>> }

UrlTails ==
    { <<>>, <<"/", "x">>, <<"#", ".", "roblox", ".", "com">> }

\* Authorities of at most n chunks
RECURSIVE UrlAuthorities(_)
UrlAuthorities(n) ==
    IF n <= 1 THEN UrlChunks
    ELSE LET shorter == UrlAuthorities(n - 1) IN
         shorter \cup { a \o j \o c :
                          <<a, j, c>> \in shorter \X UrlJoiners \X UrlChunks }

UrlInputs ==
    { Str(p \o a \o t) :
        <<p, a, t>> \in UrlPrefixes \X UrlAuthorities(MaxChunks) \X UrlTails }
    \cup { Str(<<"not", " ", "a", " ", "url">>), Str(URL_GOOD), Str(URL_EVIL),
           Str(URL_FTP), Str(URL_PORT),
           Str(<<" ", "https", ":", "/", "/", "roblox", ".", "com">>),
           Str(<<"https", ":", "roblox", ".", "com">>),
           Str(<<"https", ":", "/", "/", "roblox", ".", "com", "?", "x">>),
           Str(<<"https", ":", "/", "/", "evil", ".", "com", "/", ".",
                 "roblox", ".", "com">>) }
    \cup CommonValues

InitUrl ==
    /\ pc = "idle"
    /\ url \in UrlInputs
    /\ url_result = <<>>
    /\ user_input = <<>>
    /\ id_status = "None"
    /\ attempt = 0
    /\ delay = NoDelay
    /\ response = NoResponse
    /\ history = <<>>
    /\ events = <<>>
    /\ printed = <<>>
    /\ result = "None"
    /\ user_info = NoInfo
    /\ session_closed = FALSE
    /\ calc = NoCalc
    /\ own_session = NoSession
    /\ calls = NoCalls

CheckUrl ==
    /\ pc = "idle"
    /\ url_result' = validate_avatar_url(url)
    /\ pc' = "checked"
    /\ UNCHANGED <<url, user_input, id_status, attempt, delay, response,
                   history, events, printed, result, user_info,
                   session_closed, calc, own_session, calls>>

NextUrl == CheckUrl

SpecUrl == InitUrl /\ [][NextUrl]_vars

----------------------------------------------------------------------------
(* calculate_retry_delay on its own: it is called for the attempt numbers   *)
(* a <= b of 0..MaxAttempt, with every jitter draw for b.                   *)

MaxAttempt == 8

DelayInputs ==
    { [a |-> x, b |-> y, j |-> z, ret |-> NoDelay] :
        <<x, y, z>> \in { t \in (0..MaxAttempt) \X (0..MaxAttempt)
                                \X (0..JitterSteps) : t[1] <= t[2] } }

InitDelay ==
    /\ pc = "idle"
    /\ calc \in DelayInputs
    /\ user_input = <<>>
    /\ id_status = "None"
    /\ attempt = 0
    /\ delay = NoDelay
    /\ response = NoResponse
    /\ history = <<>>
    /\ events = <<>>
    /\ printed = <<>>
    /\ result = "None"
    /\ user_info = NoInfo
    /\ session_closed = FALSE
    /\ url = Null
    /\ url_result = <<>>
    /\ own_session = NoSession
    /\ calls = NoCalls

CalcDelay ==
    /\ pc = "idle"
    /\ calc' = [calc EXCEPT !.ret = calculate_retry_delay(calc.b, calc.j)]
    /\ pc' = "checked"
    /\ UNCHANGED <<user_input, id_status, attempt, delay, response, history,
                   events, printed, result, user_info, session_closed, url,
                   url_result, own_session, calls>>

NextDelay == CalcDelay

SpecDelay == InitDelay /\ [][NextDelay]_vars

----------------------------------------------------------------------------
(* One call of fetch_user_information in which every session.get and every  *)
(* time.sleep comes back (with a result or an exception) and nobody         *)
(* cancels: the loop body is always taken to its end.                       *)

NextRun == FetchRequest \/ Sleep

SpecRun ==
    InitFetch /\ [][NextRun]_vars /\ WF_vars(FetchRequest) /\ WF_vars(Sleep)

----------------------------------------------------------------------------
(* Several threads call fetch_user_information at once, all with one        *)
(* session.  attempt, delay and the response are local variables of the     *)
(* function (lines 178-214): each call has its own, kept in calls[c]; log   *)
(* is what the call was answered and what it decided.  The threads take     *)
(* their steps in any order.                                                *)

MaxCalls == 2

CallIds == 1..MaxCalls

SharedResponses ==
    { r \in Responses :
        /\ r.exc \in {"none", "ConnectionError"}
        /\ r.status \in {0, 200, 404, 429}
        /\ ~r.retry_after.present
        /\ r.body \in {NoBody, [kind |-> "object", data |-> GoodData]}
        /\ r.status = 200 <=> r.body # NoBody }

NewCall == [pc |-> "attempting", attempt |-> 0, delay |-> NoDelay, log |-> <<>>]

InitShared ==
    /\ pc = "threads"
    /\ calls = [c \in CallIds |-> NewCall]
    /\ user_input = <<"1", "2", "3">>
    /\ id_status = "Accepted"
    /\ attempt = 0
    /\ delay = NoDelay
    /\ response = NoResponse
    /\ history = <<>>
    /\ events = <<>>
    /\ printed = <<>>
    /\ result = "None"
    /\ user_info = NoInfo
    /\ session_closed = FALSE
    /\ url = Null
    /\ url_result = <<>>
    /\ calc = NoCalc
    /\ own_session = NoSession

\* every call reading the loop variable of the first call
AttemptOf_Shared(c) == calls[1].attempt

\* The loop variable of line 178, in the frame of call c.
AttemptOf(c) == calls[c].attempt

\* One pass of the loop body by call c, as in Request.
CallRequest(c) ==
    /\ calls[c].pc = "attempting"
    /\ \E r \in SharedResponses :
         \E j \in (IF DrawsJitter(AttemptOf(c), r) THEN 0..JitterSteps
                   ELSE {0}) :
            LET h == HandleAttempt(AttemptOf(c), r, j) IN
            /\ calls' = [calls EXCEPT ![c] =
                  [pc |-> IF h.retry THEN "sleeping" ELSE "returned",
                   attempt |-> @.attempt,
                   delay |-> h.delay,
                   log |-> Append(@.log, [response |-> r, retry |-> h.retry,
                                          result |-> h.result])]]
            /\ own_session' =
                  IF h.retry THEN own_session ELSE Finally(own_session)
    /\ UNCHANGED <<pc, user_input, id_status, attempt, delay, response, history,
                   events, printed, result, user_info, session_closed, url,
                   url_result, calc>>

\* time.sleep(delay) and continue by call c, as in Sleep.
CallSleep(c) ==
    /\ calls[c].pc = "sleeping"
    /\ LET me == calls[c] IN
       calls' = [calls EXCEPT ![c] =
          IF SleepRaises(me.delay)
          THEN [me EXCEPT !.pc = "returned"]
          ELSE [me EXCEPT !.pc = IF InRange(me.attempt + 1) THEN "attempting"
                                 ELSE "returned",
                          !.attempt = me.attempt + 1,
                          !.delay = NoDelay]]
    /\ own_session' =
          IF calls'[c].pc = "returned" THEN Finally(own_session)
          ELSE own_session
    /\ UNCHANGED <<pc, user_input, id_status, attempt, delay, response, history,
                   events, printed, result, user_info, session_closed, url,
                   url_result, calc>>

NextShared == \E c \in CallIds : CallRequest(c) \/ CallSleep(c)

SpecShared == InitShared /\ [][NextShared]_vars

----------------------------------------------------------------------------
(* Properties of the fetch orchestrator.                                    *)

Requests == Len(SelectSeq(events, LAMBDA e : e = "request"))
Sleeps == Len(SelectSeq(events, LAMBDA e : e = "sleep"))

\* request, sleep, request, ...: one sleep between consecutive requests
Alternates(ev) ==
    \A i \in 1..Len(ev) : ev[i] = (IF i % 2 = 1 THEN "request" ELSE "sleep")

Retryable(outcome) == outcome \in {"RateLimited", "ServerError", "TransportError"}

Last == history[Len(history)]

AllRetryable(n) == \A i \in 1..n : Retryable(history[i].outcome)

Displayed == \E i \in 1..Len(printed) : printed[i] = "User Information"

\* The fetch returned right after the latest request: nothing was slept or
\* requested after it and no record was displayed.
EndedOnLastRequest ==
    /\ pc = "ask"
    /\ delay = NoDelay
    /\ Len(events) = 2 * Len(history) - 1
    /\ Alternates(events)
    /\ user_info = NoInfo
    /\ ~Displayed

\* C1: one call of fetch_user_information issues at most MAX_RETRIES
\* requests and sleeps at most MAX_RETRIES - 1 times, and once the attempt
\* number MAX_RETRIES has ended in a retryable outcome the call is over: it
\* neither sleeps nor requests again.
C1_BoundedAttempts ==
    /\ Requests <= MAX_RETRIES
    /\ Requests = Len(history)
    /\ Sleeps <= MAX_RETRIES - 1
    /\ (Len(history) = MAX_RETRIES /\ Retryable(Last.outcome))
          => pc \notin {"attempting", "sleeping"}

C1_Witness ==
    /\ pc = "ask"
    /\ Requests = 3
    /\ Sleeps = 2
    /\ Len(history) = 3
    /\ Retryable(Last.outcome)

Exhausted ==
    /\ pc = "ask"
    /\ Len(history) = MAX_RETRIES
    /\ AllRetryable(MAX_RETRIES)

ExhaustedKind(outcome) ==
    CASE outcome = "RateLimited" -> "RateLimitExhausted"
      [] outcome = "ServerError" -> "ServerUnavailable"
      [] OTHER -> "NetworkError"

StatusFailure(status) ==
    CASE status = 404 -> "NotFound"
      [] status = 400 -> "BadRequest"
      [] status = 401 -> "AuthRequired"
      [] OTHER -> "Forbidden"

\* C3: a response with status 404, 400, 401 or 403, on whichever attempt,
\* ends the fetch there: the failure of that status is the result, nothing
\* is slept or requested after the response and no record is displayed.
C3_NonRetryableEndsFetch ==
    (history # <<>> /\ Last.exc = "none" /\ Last.status \in {404, 400, 401, 403})
    => /\ EndedOnLastRequest
       /\ result = StatusFailure(Last.status)
       /\ Len(printed) = Len(SelectSeq(printed, LAMBDA m : m \in
              {"Rate limited. Retrying", "Connection issue. Retrying"})) + 1

C3_Witness ==
    /\ Len(history) = 3
    /\ Last.exc = "none"
    /\ Last.status = 403
    /\ result = "Forbidden"
    /\ pc = "ask"

\* C4: when the first k attempts end in retryable outcomes and attempt
\* k + 1 returns 200 with a body that is a JSON object, the fetch ends in
\* Success after exactly k + 1 requests and k sleeps, one sleep between
\* consecutive requests.
C4_RetriesThenSuccess ==
    (/\ history # <<>>
     /\ AllRetryable(Len(history) - 1)
     /\ Last.exc = "none"
     /\ Last.status = 200
     /\ Last.body = "object")
    => /\ pc = "ask"
       /\ result = "Success"
       /\ Displayed
       /\ Requests = Len(history)
       /\ Sleeps = Len(history) - 1
       /\ Alternates(events)

\* The decision table of the response classifier.
TableOutcome(h) ==
    CASE h.exc # "none" -> "TransportError"
      [] h.status = 404 -> "NotFound"
      [] h.status = 429 -> "RateLimited"
      [] h.status \in {400, 401, 403} -> "ClientError"
      [] h.status \in 500..599 -> "ServerError"
      [] h.status \in 200..299 /\ h.body = "object" -> "Success"
      [] h.status \in 200..299 -> "MalformedBody"
      [] OTHER -> "ClientError"

Outcomes ==
    {"Success", "NotFound", "RateLimited", "ClientError", "ServerError",
     "TransportError", "MalformedBody"}

\* An attempt result the table speaks of: a 2xx, 4xx or 5xx status, or no
\* status because of a connection failure or a timeout.
InTable(h) ==
    \/ h.exc \in {"ConnectionError", "Timeout"}
    \/ h.exc = "none" /\ h.status \in 200..599 \ 300..399

\* C5: every attempt result the table speaks of is handled by the branch
\* of the outcome the table gives it, and the orchestrator retries (it
\* sleeps and goes on to the next attempt) exactly after the outcomes
\* RateLimited, ServerError and TransportError while attempts remain, and
\* after no other: a fetch is over only after an outcome that is not
\* retryable or after the attempt number MAX_RETRIES.
C5_ClassificationFollowsTable ==
    /\ \A i \in 1..Len(history) :
          InTable(history[i]) =>
             /\ history[i].outcome \in Outcomes
             /\ history[i].outcome = TableOutcome(history[i])
    /\ \A i \in 1..(Len(history) - 1) :
          /\ InTable(history[i])
          /\ Retryable(TableOutcome(history[i]))
    /\ pc = "sleeping" =>
          /\ InTable(Last)
          /\ Retryable(TableOutcome(Last))
          /\ Len(history) < MAX_RETRIES
    /\ (history # <<>> /\ InTable(Last)) =>
          IF Retryable(TableOutcome(Last)) /\ Len(history) < MAX_RETRIES
          THEN \/ pc = "sleeping"
               \/ pc = "attempting" /\ attempt = Len(history)
          ELSE pc = "ask"

Rejections ==
    {"EmptyInput", "NonNumeric", "LeadingZero", "TooLong", "ParseOverflow",
     "NonPositive", "ExceedsMaximum"}

\* C6: an identifier validate_user_id rejects never reaches the network:
\* the lookup issues no request for it, reports the rejection once and is
\* over (main is back at its prompt); requests are issued only for an
\* accepted identifier.
C6_RejectedNeverFetched ==
    /\ id_status \in Rejections =>
          /\ events = <<>>
          /\ history = <<>>
          /\ printed = <<id_status>>
          /\ result = "None"
          /\ pc = "prompt"
    /\ (events # <<>> \/ pc \in {"attempting", "sleeping", "ask"}) =>
          /\ id_status = "Accepted"
          /\ validate_user_id(user_input) = "Accepted"

C6_Witness ==
    /\ user_input = <<"0", "0", "7">>
    /\ id_status = "LeadingZero"
    /\ printed = <<"LeadingZero">>
    /\ pc = "prompt"

\* C9: whatever the six optional fields of a JSON object body hold, a 2xx
\* response with such a body ends the fetch in Success with a record whose
\* fields are all filled in; it never ends in another failure.
C9_NoFieldFailsTheRecord ==
    (/\ history # <<>>
     /\ Last.exc = "none"
     /\ Last.status \in 200..299
     /\ Last.body = "object")
    => /\ pc = "ask"
       /\ result = "Success"
       /\ Displayed
       /\ \A f \in DOMAIN user_info : user_info[f] # <<>>
       /\ user_info.followers_count # NOT_AVAILABLE
             => \A i \in 1..Len(user_info.followers_count) :
                   user_info.followers_count[i] \in AsciiDigits
       /\ user_info.friends_count # NOT_AVAILABLE
             => \A i \in 1..Len(user_info.friends_count) :
                   user_info.friends_count[i] \in AsciiDigits

\* C10: a 2xx response whose body is empty, blank, unparsable or JSON that
\* is no object ends the fetch on that attempt in MalformedResponse: no
\* record is displayed and nothing is slept or requested afterwards.
C10_MalformedBodyEndsFetch ==
    (/\ history # <<>>
     /\ Last.exc = "none"
     /\ Last.status \in 200..299
     /\ Last.body \in {"empty", "blank", "garbage", "array", "scalar"})
    => /\ EndedOnLastRequest
       /\ result = "MalformedResponse"
       /\ printed[Len(printed)] = "Error: Received invalid response"

C10_Witness ==
    /\ Len(history) = 2
    /\ Last.exc = "none"
    /\ Last.status = 200
    /\ Last.body = "array"
    /\ result = "MalformedResponse"
    /\ pc = "ask"

----------------------------------------------------------------------------
(* Properties of validate_user_id, under SpecId.                            *)

TenBillion == <<1, 0, 0, 0, 0, 0, 0, 0, 0, 0, 0>>

Trimmed == Strip(user_input)
LeadingZero(s) == Len(s) > 1 /\ s[1] = "0"
HasValue(s) == IsDigit(s) /\ IntParses(s)

\* C7: the checks are made in the order EmptyInput, NonNumeric,
\* LeadingZero, TooLong, ParseOverflow, NonPositive, ExceedsMaximum and the
\* first one that fails names the rejection; the identifiers accepted are
\* exactly the digit strings without a leading zero, of at most 12
\* characters, whose value is in (0, 10,000,000,000].
C7_ChecksInOrder ==
    pc = "checked" =>
    LET s == Trimmed
        digits == IsDigit(s)
        short == Len(s) <= 12
    IN  /\ id_status = "EmptyInput" <=> s = <<>>
        /\ id_status = "NonNumeric" <=> s # <<>> /\ ~digits
        /\ id_status = "LeadingZero" <=> digits /\ LeadingZero(s)
        /\ id_status = "TooLong" <=> digits /\ ~LeadingZero(s) /\ ~short
        /\ id_status = "ParseOverflow" <=>
              digits /\ ~LeadingZero(s) /\ short /\ ~IntParses(s)
        /\ id_status = "NonPositive" <=>
              /\ HasValue(s) /\ ~LeadingZero(s) /\ short
              /\ ~IntLess(Zero, IntOf(s))
        /\ id_status = "ExceedsMaximum" <=>
              /\ HasValue(s) /\ ~LeadingZero(s) /\ short
              /\ IntLess(Zero, IntOf(s))
              /\ IntLess(TenBillion, IntOf(s))
        /\ id_status = "Accepted" <=>
              /\ HasValue(s) /\ ~LeadingZero(s) /\ short
              /\ IntLess(Zero, IntOf(s))
              /\ ~IntLess(TenBillion, IntOf(s))
        /\ user_input = <<"0", "0", "7">> => id_status = "LeadingZero"
        /\ user_input = <<"0">> => id_status = "NonPositive"
        /\ user_input = Repeat("9", 14) => id_status = "TooLong"
        /\ user_input = <<"1">> \o Repeat("0", 9) \o <<"1">>
              => id_status = "ExceedsMaximum"
        /\ user_input = <<"1">> \o Repeat("0", 10) => id_status = "Accepted"
        /\ user_input = <<"1", "2", "3">> => id_status = "Accepted"

C7_Witness ==
    /\ pc = "checked"
    /\ user_input = <<" ">> \o Repeat("0", 14)
    /\ id_status = "LeadingZero"

----------------------------------------------------------------------------
(* Properties of validate_avatar_url, under SpecUrl.                        *)

\* C8: the result is the argument unchanged, "Not available" or "Invalid
\* URL", and it is the argument only when the URL's scheme is http or https
\* and its host is an allow-listed domain or a subdomain of one; hosts that
\* only contain an allowed name are refused.
C8_OnlyAllowListedHosts ==
    pc = "checked" =>
    /\ url_result \in {url.s, NOT_AVAILABLE, INVALID_URL}
    /\ url_result \notin {NOT_AVAILABLE, INVALID_URL} =>
          /\ IsStr(url)
          /\ UrlScheme(url.s) \in { <<"http">>, <<"https">> }
          /\ DomainAllowed(UrlHostname(url.s))
    /\ url = Str(URL_EVIL) => url_result = INVALID_URL
    /\ url = Str(<<"https", ":", "/", "/", "evil", "-", "roblox", ".", "com">>)
          => url_result = INVALID_URL
    /\ url = Str(<<"https", ":", "/", "/", "roblox", ".", "com", ".", "evil",
                   ".", "com">>) => url_result = INVALID_URL
    /\ url = Str(<<"https", ":", "/", "/", "roblox", ".", "com", "@", "evil",
                   ".", "com">>) => url_result = INVALID_URL

\* C17: a URL whose scheme is http or https and whose host, compared
\* case-insensitively, is an allow-listed domain or a subdomain of one is
\* returned unchanged, whether or not its authority part also holds a
\* port or userinfo.
C17_AllowListedHostsPass ==
    (/\ pc = "checked"
     /\ IsStr(url)
     /\ UrlScheme(url.s) \in { <<"http">>, <<"https">> }
     /\ DomainAllowed(UrlHostname(url.s)))
    => url_result = url.s

----------------------------------------------------------------------------
(* Properties of calculate_retry_delay, under SpecDelay.                    *)

\* min(1 * 2^attempt, 30), in seconds
Component(att) == IF Pow2(att) < 30 THEN Pow2(att) ELSE 30

Seconds(n) == n * TicksPerSecond

\* C11: the value returned for attempt b is the component
\* min(1 * 2^b, 30) plus a jitter of at least 0 and at most half the
\* component, and the component does not decrease from a to b when
\* a <= b.
C11_ComponentAndJitter ==
    /\ Component(calc.a) <= Component(calc.b)
    /\ BackoffBase(calc.b) = Component(calc.b)
    /\ pc = "checked" =>
          /\ calc.ret.cls = "fin"
          /\ calc.ret.q >= Seconds(Component(calc.b))
          /\ 2 * (calc.ret.q - Seconds(Component(calc.b)))
                <= Seconds(Component(calc.b))

C11_Witness ==
    /\ pc = "checked"
    /\ calc.a = 4
    /\ calc.b = 6
    /\ calc.j = JitterSteps
    /\ calc.ret = Finite(Seconds(45))

\* C12: the delay calculate_retry_delay returns is at most
\* MAX_RETRY_DELAY seconds, for every attempt number and every jitter
\* draw, and so is every delay the orchestrator is about to sleep.
C12_DelayAtMostMax ==
    /\ pc = "checked" =>
          /\ calc.ret.cls = "fin"
          /\ calc.ret.q <= Seconds(MAX_RETRY_DELAY)
    /\ pc = "sleeping" =>
          /\ delay.cls = "fin"
          /\ delay.q <= Seconds(MAX_RETRY_DELAY)

----------------------------------------------------------------------------
(* Properties of the delay between attempts, under Spec.                    *)

\* The number the Retry-After header of the latest response parses to.
Hint ==
    IF response.exc = "none" /\ response.retry_after.present
    THEN ParseFloat(response.retry_after.text)
    ELSE [ok |-> FALSE, f |-> NaN]

RetryLeft == history # <<>> /\ Len(history) < MAX_RETRIES

\* The sleep after the latest attempt is over and the next attempt is due.
SleptAfterLast ==
    /\ pc = "attempting"
    /\ attempt = Len(history)
    /\ Len(events) = 2 * Len(history)
    /\ events[Len(events)] = "sleep"

\* delay is a computed backoff delay of the attempt number att
Computed(att) ==
    /\ delay.cls = "fin"
    /\ delay.q >= Seconds(Component(att))
    /\ 2 * (delay.q - Seconds(Component(att))) <= Seconds(Component(att))

\* C13: after a 429 with attempts remaining, a Retry-After header that
\* parses as a number h makes the orchestrator sleep min(h, MAX_RETRY_DELAY)
\* and go on to the next attempt; with an absent or unparsable header, and
\* after a 5xx or a transport failure whatever the header, the delay
\* slept is the computed backoff delay of the attempt.
C13_HintTakesPrecedence ==
    /\ pc = "sleeping" =>
          IF Last.status = 429 /\ Hint.ok
          THEN delay = PyMin(Hint.f, Finite(Seconds(MAX_RETRY_DELAY)))
          ELSE Computed(attempt)
    /\ (RetryLeft /\ Last.exc = "none" /\ Last.status = 429 /\ Hint.ok) =>
          pc = "sleeping" \/ SleptAfterLast

\* C16: a Retry-After of 0 or of a negative number on a 429 with attempts
\* remaining is used like any other: the delay is min(hint,
\* MAX_RETRY_DELAY), the orchestrator sleeps it and makes the next
\* attempt, and the fetch does not end in a failure because of it.
C16_NonPositiveHintUsable ==
    (/\ RetryLeft
     /\ Last.exc = "none"
     /\ Last.status = 429
     /\ Hint.ok
     /\ Hint.f.cls = "fin"
     /\ Hint.f.q <= 0) =>
        /\ result = "None"
        /\ \/ pc = "sleeping" /\ delay = Hint.f
           \/ SleptAfterLast

----------------------------------------------------------------------------
(* Properties of the failure paths of fetch_user_information.               *)

Anticipated == {"none", "ConnectionError", "Timeout", "HTTPError"}

ObjectBody ==
    /\ Last.exc = "none"
    /\ Last.status \in 200..299
    /\ Last.body = "object"

\* The latest attempt raised an exception the code has no handler for:
\* session.get raised one, a count of the payload cannot be converted,
\* the record cannot be printed, or time.sleep refused the delay.
RequestFailed == Last.exc \notin Anticipated
ExtractionFailed ==
    /\ ObjectBody
    /\ \E f \in {"followersCount", "friendsCount"} :
          response.body.data[f] \in {NonFinite("inf"), NonFinite("nan")}
RenderingFailed ==
    /\ ObjectBody
    /\ ~ExtractionFailed
    /\ \E f \in {"name", "displayName"} :
          response.body.data[f] = Str(<<"uD800">>)
SleepFailed ==
    /\ pc # "sleeping"
    /\ RetryLeft
    /\ Last.exc = "none"
    /\ Last.status = 429
    /\ Hint.ok
    /\ SleepRaises(PyMin(Hint.f, Finite(Seconds(MAX_RETRY_DELAY))))

\* C14: an exception raised by the request, by time.sleep, by the
\* extraction of the payload or by the display of the record ends the fetch
\* in the failure Unexpected: the call prints the generic message last,
\* returns to its caller and makes no further attempt.
C14_UnexpectedIsCaught ==
    (/\ history # <<>>
     /\ RequestFailed \/ ExtractionFailed \/ RenderingFailed \/ SleepFailed)
    => /\ pc = "ask"
       /\ result = "Unexpected"
       /\ printed[Len(printed)] = "An unexpected error occurred"
       /\ Requests = Len(history)
       /\ Sleeps = Len(history) - 1

C14_Witness ==
    /\ Len(history) = 2
    /\ RenderingFailed
    /\ printed = <<"Connection issue. Retrying", "User Information",
                   "An unexpected error occurred">>

\* The call is over: it returned, or the cancellation left it.
FetchOver == pc \in {"ask", "unwound", "exited"}

\* C15: a session the call created is closed exactly once when the call
\* returns or is cancelled during a request or a sleep, and not before;
\* the caller's session is not closed by the call, it is open while the
\* call runs and after it returned, and main closes it when it exits.
C15_SessionReleased ==
    /\ own_session.created =>
          /\ own_session.closes = (IF FetchOver THEN 1 ELSE 0)
          /\ ~session_closed
    /\ ~own_session.created =>
          /\ own_session.closes = 0
          /\ session_closed <=> pc = "exited"

C15_Witness ==
    /\ pc = "unwound"
    /\ own_session = [created |-> TRUE, closes |-> 1]
    /\ Len(history) = 2
    /\ Sleeps = 1
    /\ delay # NoDelay

----------------------------------------------------------------------------
(* Properties of the record's fields, under Spec.                           *)

\* A record was built from the object body of the latest response and
\* displayed.
RecordShown == pc = "ask" /\ ObjectBody /\ result = "Success"

IsCount(v) ==
    \/ v.k \in {"int", "float"} /\ v.n >= 0
    \/ v \in {NonFinite("inf"), NonFinite("nan")}

IsDigits(s) == s # <<>> /\ \A i \in 1..Len(s) : s[i] \in AsciiDigits

REFORMATTED ==
    <<"2", "0", "2", "0", "-", "0", "1", "-", "0", "2", " ", "2", "3", ":",
      "5", "9", ":", "0", "0">>

\* What the field created becomes, by the kind of its value; a null and
\* an empty string count as absent.
CreatedSentinel(v) ==
    IF v \in {Missing, Null, Str(<<>>), Str(UNKNOWN)} THEN UNKNOWN
    ELSE IF v \in {Str(DATE_FRACTION), Str(DATE_SECONDS)} THEN REFORMATTED
    ELSE INVALID_DATE

\* C18: in a displayed record followers_count and friends_count are a
\* string of digits when the field is a number >= 0 and "Not available"
\* for every other value (missing, null, negative, string, boolean, array,
\* object); created_date is "Unknown" when the field is absent or holds
\* "Unknown", the reformatted timestamp when it holds a string in one of
\* the two formats and "Invalid date format" for every other value.
C18_SentinelsByKind ==
    RecordShown =>
       /\ IF IsCount(response.body.data.followersCount)
          THEN IsDigits(user_info.followers_count)
          ELSE user_info.followers_count = NOT_AVAILABLE
       /\ IF IsCount(response.body.data.friendsCount)
          THEN IsDigits(user_info.friends_count)
          ELSE user_info.friends_count = NOT_AVAILABLE
       /\ user_info.created_date = CreatedSentinel(response.body.data.created)

----------------------------------------------------------------------------
(* Properties of a whole call, under SpecRun.                               *)

Notices == {"Rate limited. Retrying", "Connection issue. Retrying"}

RecordOutput ==
    {"User Information", "Latency"} \cup
    { RecordLabels[i] : i \in 1..Len(RecordLabels) }

\* The failure messages the call printed.
Failures ==
    SelectSeq(printed, LAMBDA m : m \notin Notices \cup RecordOutput)

\* The results the call reported: the record, if any of it was displayed,
\* and each failure message.
Reports == Len(Failures) + (IF Displayed THEN 1 ELSE 0)

\* C19: a call whose requests and sleeps all come back ends, and when it
\* has ended it has reported exactly one result, the user record or one
\* failure message: never none and never both.
C19_EndsWithOneResult ==
    /\ <>(pc = "ask")
    /\ [](pc = "ask" => Reports = 1)
    /\ [](pc # "ask" => Reports = 0)

----------------------------------------------------------------------------
(* Properties of concurrent calls, under SpecShared.                        *)

InFlight(c) == calls[c].pc # "returned"

\* What a call acting on its own decides about its i-th response.
OwnDecision(c, i) ==
    { [retry |-> h.retry, result |-> h.result] :
        h \in { HandleAttempt(i - 1, calls[c].log[i].response, j) :
                   j \in 0..JitterSteps } }

\* C20: under every interleaving each call makes at most MAX_RETRIES
\* requests, its i-th request is its attempt number i - 1 whatever the
\* other calls have done, what it decides about a response is what a call
\* on its own decides, and the shared session is closed by no call.
C20_CallsAreIndependent ==
    /\ \A c \in CallIds :
          /\ Len(calls[c].log) <= MAX_RETRIES
          /\ calls[c].attempt <= Len(calls[c].log)
          /\ calls[c].pc = "attempting" => calls[c].attempt = Len(calls[c].log)
          /\ \A i \in 1..Len(calls[c].log) :
                /\ [retry |-> calls[c].log[i].retry,
                    result |-> calls[c].log[i].result] \in OwnDecision(c, i)
                /\ calls[c].log[i].retry <=> (i < Len(calls[c].log)
                                               \/ InFlight(c))
    /\ ~session_closed
    /\ own_session = NoSession

C20_Witness ==
    /\ calls[1].pc = "returned"
    /\ Len(calls[1].log) = MAX_RETRIES
    /\ calls[1].log[MAX_RETRIES].result = "RateLimitExhausted"
    /\ InFlight(2)
    /\ calls[2].attempt = 0
    /\ calls[2].pc = "attempting"

============================================================================
